---- MODULE Spec2Model ----
(***************************************************************************)
(* The synchronization core of IDArling (src/idarling/core/core.py): the   *)
(* Core module object, its netnode persistence, its two coarse hooks       *)
(* (ready_to_run, closebase), the join/leave protocol and the fine-grained *)
(* event hooks that hook_all/unhook_all register with the host.            *)
(***************************************************************************)
EXTENDS Integers, Sequences, FiniteSets, TLC

(***************************************************************************)
(* Bounds of the model.                                                    *)
(***************************************************************************)
MaxPending == 2
MaxGen == 2

(***************************************************************************)
(* Python values.  A str is a tuple of one-character strings; None is a    *)
(* distinguished tuple that is no str (its only element is not a           *)
(* character).                                                             *)
(***************************************************************************)
None == <<"None">>

P == <<"p">>
PBad == <<".", ".", "p">>
D == <<"d", ".", "b">>
DUpper == <<"D", ".", "b">>
DBad == <<"d", ".", ".">>

ProjectNames == {P, PBad}
DatabaseNames == {D, DBad}
RelayNames == {D, DUpper}

\* the values other components assign to Core.tick
TickValues == {0, 7}

\* bool(x) of a str or None: None and "" are falsy
Truthy(x) == x # None /\ x # <<>>

\* `x or None`
OrNone(x) == IF Truthy(x) THEN x ELSE None

\* `".." in s` for a str s: some two adjacent characters are both "."
HasDotDot(s) == \E i \in 1..(Len(s) - 1) : s[i] = "." /\ s[i + 1] = "."

Digits == <<"0", "1", "2", "3", "4", "5", "6", "7", "8", "9">>

\* str(n) of a non-negative int: its decimal digits
RECURSIVE Str(_)
Str(n) == IF n < 10 THEN <<Digits[n + 1]>>
          ELSE Str(n \div 10) \o <<Digits[(n % 10) + 1]>>

DigitValue(c) == (CHOOSE k \in 1..10 : Digits[k] = c) - 1

\* int(s) of a str of decimal digits
RECURSIVE ParseInt(_)
ParseInt(s) == IF Len(s) = 0 THEN 0
               ELSE 10 * ParseInt(SubSeq(s, 1, Len(s) - 1)) + DigitValue(s[Len(s)])

(***************************************************************************)
(* Exceptions a handler can end with.                                      *)
(***************************************************************************)
NoFault == "none"
TypeError == "TypeError"
AssertionError == "AssertionError"
AttributeError == "AttributeError"

\* The five groups of fine-grained hooks that _install instantiates
HookKinds == {"idb", "idp", "hxe", "view", "ui"}

(***************************************************************************)
(* Packets handed to the transport.                                        *)
(***************************************************************************)
Packet(type, p, d, t) == [type |-> type, project |-> p, database |-> d, tick |-> t]
ListDatabasesQuery(p) == Packet("query", p, None, 0)
JoinSession(p, d, t) == Packet("join", p, d, t)
LeaveSession == Packet("leave", None, None, 0)
\* an event of the catalogue; its payload is opaque to the core
Event == Packet("event", None, None, 0)

VARIABLES
    project,    \* Core._project: a str or None
    database,   \* Core._database: a str or None
    tick,       \* Core._tick: an int
    ticks,      \* Core.ticks, the attribute closebase assigns: None until set
    hooked,     \* Core._hooked
    gen,        \* which instantiation of the five hook objects Core holds (0: none)
    installed,  \* the two coarse hooks (UIHooksCore, IDBHooksCore) are hooked
    hostHooks,  \* <<generation, kind>> of the fine-grained hooks registered with the host
    netnode,    \* the "$ idarling" netnode of the database the host opened last:
                \* key -> str, or None when the key is unset
    doc,        \* the host's database: "closed", "loaded" (open, ready_to_run not
                \* yet signalled) or "ready"
    pending,    \* deferreds of the ListDatabases queries awaiting their reply
    out,        \* packets the last handler handed to the transport, in order
    last,       \* what the last handler was and how it ended
    joined,     \* history: a JoinSession was dispatched for the open database and
                \* no LeaveSession or close since
    wire,       \* history: the last JoinSession or LeaveSession in the sequence of
                \* packets handed to the transport: "join", "leave", or "none"
    connect     \* the Core of plugin/idaconnect: the instantiation of its two hook
                \* objects (gen, 0: none), those registered with the host (hooks),
                \* the events its last callback sent (out) and how it ended (last)

vars == <<project, database, tick, ticks, hooked, gen, installed, hostHooks,
          netnode, doc, pending, out, last, joined, wire, connect>>

(***************************************************************************)
(* The state a handler works on, threaded through its statements.  A       *)
(* statement is skipped once an exception is propagating (fault set).      *)
(***************************************************************************)
\* up says whether the transport is connected while the handler runs.
Machine(up) == [project |-> project, database |-> database, tick |-> tick,
                ticks |-> ticks, hooked |-> hooked, host |-> hostHooks,
                node |-> netnode, pending |-> pending, up |-> up,
                out |-> <<>>, fault |-> NoFault]

Raise(m, e) == [m EXCEPT !.fault = e]

\* network.send_packet(packet): hands the packet to the transport when connected,
\* drops it (and returns None) when not
send_packet(m, packet) ==
    IF m.up THEN [m EXCEPT !.out = Append(@, packet)] ELSE m

\* the assert statements compiled away
AssertNoDotDotStripped(m, x) == m

\* `assert ".." not in x`: a TypeError when x is None
AssertNoDotDot(m, x) ==
    IF x = None THEN Raise(m, TypeError)
    ELSE IF HasDotDot(x) THEN Raise(m, AssertionError)
    ELSE m

\* Core.save_netnode
save_netnode(m) ==
    LET n1 == IF Truthy(m.project)
              THEN [m.node EXCEPT !.project = m.project] ELSE m.node
        n2 == IF Truthy(m.database)
              THEN [n1 EXCEPT !.database = m.database] ELSE n1
        n3 == IF m.tick # 0
              THEN [n2 EXCEPT !.tick = Str(m.tick)] ELSE n2
    IN  [m EXCEPT !.node = n3]

\* Core.load_netnode
load_netnode(m) ==
    LET m1 == [m EXCEPT !.project = OrNone(m.node.project)]
        m2 == AssertNoDotDot(m1, m1.project)
        m3 == IF m2.fault # NoFault THEN m2
              ELSE [m2 EXCEPT !.database = OrNone(m.node.database)]
        m4 == IF m3.fault # NoFault THEN m3
              ELSE AssertNoDotDot(m3, m3.database)
    IN  IF m4.fault # NoFault THEN m4
        ELSE [m4 EXCEPT !.tick =
                 ParseInt(IF Truthy(m.node.tick) THEN m.node.tick ELSE <<"0">>)]

\* Core.project setter
set_project(m, v) ==
    IF m.fault # NoFault THEN m
    ELSE LET m1 == AssertNoDotDot([m EXCEPT !.project = v], v)
         IN  IF m1.fault # NoFault THEN m1 ELSE save_netnode(m1)

\* Core.database setter
set_database(m, v) ==
    IF m.fault # NoFault THEN m
    ELSE LET m1 == AssertNoDotDot([m EXCEPT !.database = v], v)
         IN  IF m1.fault # NoFault THEN m1 ELSE save_netnode(m1)

\* Core.tick setter
set_tick(m, v) ==
    IF m.fault # NoFault THEN m
    ELSE save_netnode([m EXCEPT !.tick = v])

\* Core.hook_all; the hook objects are None until _install has run
hook_all(m) ==
    IF m.hooked THEN m
    ELSE IF gen = 0 THEN Raise(m, AttributeError)
    ELSE [m EXCEPT !.host = @ \cup ({gen} \X HookKinds), !.hooked = TRUE]

\* Core.unhook_all without its `if not self._hooked: return`
unhook_all_Unguarded(m) ==
    IF gen = 0 THEN Raise(m, AttributeError)
    ELSE [m EXCEPT !.host = @ \ ({gen} \X HookKinds), !.hooked = FALSE]

\* Core.unhook_all
unhook_all(m) ==
    IF ~m.hooked THEN m
    ELSE IF gen = 0 THEN Raise(m, AttributeError)
    ELSE [m EXCEPT !.host = @ \ ({gen} \X HookKinds), !.hooked = FALSE]

\* a leave_session that also resets the tick
leave_session_Resetting(m) ==
    IF Truthy(m.project) /\ Truthy(m.database)
    THEN [unhook_all(send_packet(m, LeaveSession)) EXCEPT !.tick = 0]
    ELSE m

\* Core.leave_session
leave_session(m) ==
    IF Truthy(m.project) /\ Truthy(m.database)
    THEN unhook_all(send_packet(m, LeaveSession))
    ELSE m

\* The deferred of a ListDatabases query; stale (history) is set once the host
\* has closed the database since the query was sent
Deferred == [stale |-> FALSE]

\* Core.join_session: the query and the registration of databases_listed
join_session(m) ==
    IF m.fault # NoFault THEN m
    ELSE IF Truthy(m.project) /\ Truthy(m.database)
    THEN LET m1 == send_packet(m, ListDatabasesQuery(m.project))
         IN  IF m.up
             THEN [m1 EXCEPT !.pending = Append(@, Deferred)]
             ELSE m1
    ELSE m

\* a JoinSession carrying the tick the netnode holds instead of Core._tick
JoinPacketStoredTick(m) ==
    JoinSession(m.project, m.database,
                ParseInt(IF Truthy(m.node.tick) THEN m.node.tick ELSE <<"0">>))

\* the JoinSession packet databases_listed builds
JoinPacket(m) == JoinSession(m.project, m.database, m.tick)

LowerChar(c) == IF c = "D" THEN "d" ELSE IF c = "P" THEN "p" ELSE c
Lower(x) == [i \in 1..Len(x) |-> LowerChar(x[i])]

\* a comparison of the names that ignores case
DatabaseListedIgnoreCase(m, names) ==
    \E n \in names : Lower(n) = Lower(m.database)

\* the test databases_listed makes of the reply
DatabaseListed(m, names) == \E n \in names : n = m.database

\* a databases_listed that sends the JoinSession and leaves the hooks alone
databases_listed_NoHook(m, names) ==
    IF DatabaseListed(m, names)
    THEN send_packet(m, JoinPacket(m))
    ELSE m

\* databases_listed(reply), the callback of a deferred
databases_listed(m, names) ==
    IF DatabaseListed(m, names)
    THEN hook_all(send_packet(m, JoinPacket(m)))
    ELSE m

\* Core._uninstall, after the two coarse hooks are unhooked
uninstall(m) == unhook_all(m)

\* UIHooksCore.ready_to_run
ready_to_run(m) == join_session(load_netnode(m))

\* IDBHooksCore.closebase; `core.ticks = 0` assigns the attribute ticks
closebase(m) ==
    LET m1 == save_netnode(leave_session(m))
        m2 == set_project(m1, None)
        m3 == set_database(m2, None)
    IN  IF m3.fault # NoFault THEN m3 ELSE [m3 EXCEPT !.ticks = 0]

(***************************************************************************)
(* The initial state: a constructed Core (Core.__init__), nothing          *)
(* installed, no database open.                                            *)
(***************************************************************************)
\* The netnode of a database no run of the plugin has written
Unbound == [project |-> None, database |-> None, tick |-> None]

\* The netnodes of the databases the host may open: what earlier runs of the
\* plugin, here or on another analyst's machine, have left in them
Netnode(p, d, t) == [project |-> p, database |-> d, tick |-> t]
Netnodes == {Unbound, Netnode(P, D, None), Netnode(P, D, Str(7)),
             Netnode(PBad, D, None), Netnode(P, DBad, Str(7))}

\* What the last handler was: its name ("ready", "closebase", "reply", "join",
\* "leave", "set" for a setter, or "other" for the rest), the exception it ended with, and for a
\* reply the names the relay listed and whether the database was closed since
\* the query was sent; again says that the handler before it was the same one
Last(op, fault, names, stale) ==
    [op |-> op, fault |-> fault, names |-> names, stale |-> stale,
     again |-> FALSE]

Did(op, fault) == Last(op, fault, {}, FALSE)

DocOpen == doc # "closed"

Init ==
    /\ project = None
    /\ database = None
    /\ tick = 0
    /\ ticks = None
    /\ hooked = FALSE
    /\ gen = 0
    /\ installed = FALSE
    /\ hostHooks = {}
    /\ netnode = Unbound
    /\ doc = "closed"
    /\ pending = <<>>
    /\ out = <<>>
    /\ last = Did("other", NoFault)
    /\ joined = FALSE
    /\ wire = "none"
    /\ connect = [gen |-> 0, hooks |-> {}, out |-> <<>>,
                  last |-> [op |-> "init", fault |-> NoFault, returned |-> None]]

\* The JoinSession and LeaveSession packets among `packets`, in order
SessionPackets(packets) ==
    SelectSeq(packets, LAMBDA p : p.type \in {"join", "leave"})

\* wire after a handler that handed `packets` to the transport
WireAfter(packets) ==
    LET s == SessionPackets(packets)
    IN  IF s = <<>> THEN wire ELSE s[Len(s)].type

\* The Core fields, netnode, host registrations, deferreds and packets after a
\* handler that ended in machine state m
Commit(m) ==
    /\ project' = m.project
    /\ database' = m.database
    /\ tick' = m.tick
    /\ ticks' = m.ticks
    /\ hooked' = m.hooked
    /\ hostHooks' = m.host
    /\ netnode' = m.node
    /\ pending' = m.pending
    /\ out' = m.out
    /\ wire' = WireAfter(m.out)
    /\ UNCHANGED connect

Sent(packets, type) == \E i \in 1..Len(packets) : packets[i].type = type

\* joined after a handler that handed `packets` to the transport
JoinedAfter(packets) ==
    IF Sent(packets, "leave") THEN FALSE
    ELSE IF Sent(packets, "join") /\ DocOpen THEN TRUE
    ELSE joined

\* Module.install runs _install only when the module is not installed, and
\* Module.uninstall runs _uninstall only when it is
ModuleInstallable == ~installed
ModuleUninstallable == installed

\* Core._install: instantiates the five hook objects anew and hooks the two
\* coarse hooks
Install ==
    /\ ModuleInstallable
    /\ gen < MaxGen
    /\ gen' = gen + 1
    /\ installed' = TRUE
    /\ out' = <<>>
    /\ last' = Did("other", NoFault)
    /\ UNCHANGED <<project, database, tick, ticks, hooked, hostHooks, netnode,
                   doc, pending, joined, wire, connect>>

\* Core._uninstall: unhooks the two coarse hooks, then unhook_all
Uninstall ==
    /\ ModuleUninstallable
    /\ installed' = FALSE
    /\ LET m == uninstall(Machine(TRUE))
       IN  /\ Commit(m)
           /\ last' = Did("other", m.fault)
    /\ UNCHANGED <<gen, doc, joined>>

\* The host opens a database: the one it had open last, or another one
OpenDatabase ==
    \E n \in Netnodes \cup {netnode} :
        /\ doc = "closed"
        /\ doc' = "loaded"
        /\ netnode' = n
        /\ out' = <<>>
        /\ last' = Did("other", NoFault)
        /\ UNCHANGED <<project, database, tick, ticks, hooked, gen, installed,
                       hostHooks, pending, joined, wire, connect>>

\* The host signals ready_to_run for the database it has loaded; UIHooksCore
\* runs when it is hooked
ReadyToRun ==
    \E up \in BOOLEAN :
        /\ doc = "loaded"
        /\ Len(pending) < MaxPending
        /\ doc' = "ready"
        /\ LET m == IF installed THEN ready_to_run(Machine(up)) ELSE Machine(up)
           IN  /\ Commit(m)
               /\ last' = Did(IF installed THEN "ready" ELSE "other", m.fault)
        /\ UNCHANGED <<gen, installed, joined>>

MarkStale(ds) == [i \in 1..Len(ds) |-> [ds[i] EXCEPT !.stale = TRUE]]

\* The host closes the database and signals closebase; IDBHooksCore runs when
\* it is hooked
Closebase ==
    \E up \in BOOLEAN :
        /\ DocOpen
        /\ doc' = "closed"
        /\ LET m0 == [Machine(up) EXCEPT !.pending = MarkStale(@)]
               m == IF installed THEN closebase(m0) ELSE m0
           IN  /\ Commit(m)
               /\ last' = Did(IF installed THEN "closebase" ELSE "other", m.fault)
        /\ joined' = FALSE
        /\ UNCHANGED <<gen, installed>>

Remove(s, i) == SubSeq(s, 1, i - 1) \o SubSeq(s, i + 1, Len(s))

\* The transport delivers the reply to an outstanding ListDatabases query: the
\* relay lists `names`, one of `lists`, and the deferred fires databases_listed
\* while the transport is connected or not (up); the errback logs an exception
\* of the callback
Reply(up, lists) ==
    \E i \in 1..Len(pending), names \in lists :
        /\ LET d == pending[i]
               m == databases_listed([Machine(up) EXCEPT !.pending = Remove(@, i)],
                                     names)
           IN  /\ Commit(m)
               /\ last' = Last("reply", m.fault, names, d.stale)
               /\ joined' = JoinedAfter(m.out)
        /\ UNCHANGED <<gen, installed, doc>>

DatabasesListed == Reply(TRUE, SUBSET RelayNames)

\* The host raises a mutation notification of one kind on the open database:
\* every hook object of that kind registered with the host forwards one event
Notify ==
    \E k \in HookKinds, up \in BOOLEAN :
        /\ DocOpen
        /\ LET n == Cardinality({g \in 1..MaxGen : <<g, k>> \in hostHooks})
               evs == [i \in 1..n |-> Event]
           IN  out' = IF up THEN evs ELSE <<>>
        /\ last' = Did("other", NoFault)
        /\ UNCHANGED <<project, database, tick, ticks, hooked, gen, installed,
                       hostHooks, netnode, doc, pending, joined, wire, connect>>

\* The rest of the plugin uses Core while it is installed and a database is
\* open and ready
InUse == installed /\ doc = "ready"

\* Another component of the plugin assigns Core.project
SetProject ==
    \E v \in ProjectNames :
        /\ InUse
        /\ LET m == set_project(Machine(TRUE), v)
           IN  /\ Commit(m)
               /\ last' = Did("set", m.fault)
        /\ UNCHANGED <<gen, installed, doc, joined>>

\* Another component of the plugin assigns Core.database
SetDatabase ==
    \E v \in DatabaseNames :
        /\ InUse
        /\ LET m == set_database(Machine(TRUE), v)
           IN  /\ Commit(m)
               /\ last' = Did("set", m.fault)
        /\ UNCHANGED <<gen, installed, doc, joined>>

\* The component that applies the relay's events assigns Core.tick
SetTick ==
    \E v \in TickValues :
        /\ InUse
        /\ LET m == set_tick(Machine(TRUE), v)
           IN  /\ Commit(m)
               /\ last' = Did("set", m.fault)
        /\ UNCHANGED <<gen, installed, doc, joined>>

\* Another component of the plugin calls Core.join_session
JoinSessionCalled ==
    \E up \in BOOLEAN :
        /\ InUse
        /\ Len(pending) < MaxPending
        /\ LET m == join_session(Machine(up))
           IN  /\ Commit(m)
               /\ last' = Did("join", m.fault)
        /\ UNCHANGED <<gen, installed, doc, joined>>

\* Another component of the plugin calls Core.leave_session
LeaveSessionCalled ==
    \E up \in BOOLEAN :
        /\ InUse
        /\ LET m == leave_session(Machine(up))
           IN  /\ Commit(m)
               /\ last' = Did("leave", m.fault)
               /\ joined' = JoinedAfter(m.out)
        /\ UNCHANGED <<gen, installed, doc>>

Next ==
    \/ Install
    \/ Uninstall
    \/ OpenDatabase
    \/ ReadyToRun
    \/ Closebase
    \/ DatabasesListed
    \/ Notify
    \/ SetProject
    \/ SetDatabase
    \/ SetTick
    \/ JoinSessionCalled
    \/ LeaveSessionCalled

Spec == Init /\ [][Next]_vars

(***************************************************************************)
(* Core driven through its hook methods alone: install, uninstall,         *)
(* hook_all and unhook_all called in any order, on a database the host     *)
(* has open or not.                                                        *)
(***************************************************************************)
\* Core.hook_all called directly
HookAllCalled ==
    /\ LET m == hook_all(Machine(TRUE))
       IN  /\ Commit(m)
           /\ last' = [Did("hook", m.fault) EXCEPT !.again = (last.op = "hook")]
    /\ UNCHANGED <<gen, installed, doc, joined>>

\* Core.unhook_all called directly
UnhookAllCalled ==
    /\ LET m == unhook_all(Machine(TRUE))
       IN  /\ Commit(m)
           /\ last' = [Did("unhook", m.fault) EXCEPT !.again = (last.op = "unhook")]
    /\ UNCHANGED <<gen, installed, doc, joined>>

NextHooks ==
    \/ Install
    \/ Uninstall
    \/ HookAllCalled
    \/ UnhookAllCalled
    \/ OpenDatabase
    \/ Notify

SpecHooks == Init /\ [][NextHooks]_vars

(***************************************************************************)
(* Core on a transport that can fail to dispatch any packet, the           *)
(* JoinSession of databases_listed included: send_packet returns None      *)
(* and nothing is sent.                                                    *)
(***************************************************************************)
\* The reply to an outstanding query fires databases_listed while the transport
\* cannot dispatch
DatabasesListedSendFails == Reply(FALSE, SUBSET RelayNames)

NextLossy ==
    \/ Next
    \/ DatabasesListedSendFails

SpecLossy == Init /\ [][NextLossy]_vars

(***************************************************************************)
(* Core between the host and a relay that knows the database D and whose   *)
(* replies are delivered: the deferred of a query sent fires in the end.   *)
(* No other component of the plugin touches Core.                          *)
(***************************************************************************)
\* The reply of a relay that lists D, maybe among others
DatabasesListedKnown == Reply(TRUE, {ns \in SUBSET RelayNames : D \in ns})

NextFair ==
    \/ Install
    \/ Uninstall
    \/ OpenDatabase
    \/ ReadyToRun
    \/ Closebase
    \/ DatabasesListedKnown

SpecFair == Init /\ [][NextFair]_vars /\ WF_vars(DatabasesListedKnown)

(***************************************************************************)
(* plugin/idaconnect: its Core hooks an IDPHooks and an IDBHooks object,   *)
(* whose callbacks build one event each and hand it to the network.        *)
(***************************************************************************)
IDPCallbacks == {"ev_undefine"}
IDBCallbacks == {"make_code", "make_data", "renamed", "func_added",
                 "deleting_func", "set_func_start", "set_func_end",
                 "cmt_changed"}
Callbacks == IDPCallbacks \cup IDBCallbacks

\* the hook class that defines a callback
HooksClass(cb) == IF cb \in IDPCallbacks THEN "idp" ELSE "idb"

\* the event class a callback instantiates
EventClass(cb) ==
    CASE cb = "ev_undefine" -> "UndefinedEvent"
      [] cb = "make_code" -> "MakeCodeEvent"
      [] cb = "make_data" -> "MakeDataEvent"
      [] cb = "renamed" -> "RenamedEvent"
      [] cb = "func_added" -> "FuncAddedEvent"
      [] cb = "deleting_func" -> "DeletingFuncEvent"
      [] cb = "set_func_start" -> "SetFuncStartEvent"
      [] cb = "set_func_end" -> "SetFuncEndEvent"
      [] cb = "cmt_changed" -> "CmtChangedEvent"

\* Where a callback can meet an exception: reading its arguments and
\* building the event ("construct"), network.send_event ("send"), or nowhere
Failures == {"none", "construct", "send"}

\* Hooks._send_event: logs, then network.send_event(event); an exception of
\* send_event propagates
send_event(c, event, fails) ==
    IF fails = "send"
    THEN [c EXCEPT !.last.fault = "send"]
    ELSE [c EXCEPT !.out = Append(@, event)]

\* A callback of IDPHooks or IDBHooks: builds the event, _send_event, return 0;
\* an exception leaves it before the return
callback(c, cb, fails) ==
    LET c0 == [c EXCEPT !.out = <<>>,
                        !.last = [op |-> cb, fault |-> NoFault, returned |-> None]]
    IN  IF fails = "construct"
        THEN [c0 EXCEPT !.last.fault = "construct"]
        ELSE LET c1 == send_event(c0, EventClass(cb), fails)
             IN  IF c1.last.fault # NoFault THEN c1
                 ELSE [c1 EXCEPT !.last.returned = 0]

IDArlingIdle ==
    UNCHANGED <<project, database, tick, ticks, hooked, gen, installed,
                hostHooks, netnode, doc, pending, out, last, joined, wire>>

\* Core.install of idaconnect: two new hook objects, hooked at once
ConnectInstall ==
    /\ connect.gen < MaxGen
    /\ connect' = [gen |-> connect.gen + 1,
                   hooks |-> connect.hooks \cup ({connect.gen + 1} \X {"idp", "idb"}),
                   out |-> <<>>,
                   last |-> [op |-> "install", fault |-> NoFault, returned |-> None]]
    /\ IDArlingIdle

\* Core.uninstall of idaconnect: unhooks the two objects Core holds, which do
\* not exist before the first install
ConnectUninstall ==
    /\ connect' =
         IF connect.gen = 0
         THEN [connect EXCEPT !.out = <<>>,
                 !.last = [op |-> "uninstall", fault |-> AttributeError,
                           returned |-> None]]
         ELSE [connect EXCEPT !.out = <<>>,
                 !.hooks = @ \ ({connect.gen} \X {"idp", "idb"}),
                 !.last = [op |-> "uninstall", fault |-> NoFault,
                           returned |-> None]]
    /\ IDArlingIdle

\* The host calls a callback of a hook object registered with it
ConnectNotify ==
    \E cb \in Callbacks, g \in 1..MaxGen, fails \in Failures :
        /\ <<g, HooksClass(cb)>> \in connect.hooks
        /\ connect' = callback(connect, cb, fails)
        /\ IDArlingIdle

NextConnect ==
    \/ ConnectInstall
    \/ ConnectUninstall
    \/ ConnectNotify

SpecConnect == Init /\ [][NextConnect]_vars

(***************************************************************************)
(* The claims.                                                             *)
(***************************************************************************)

\* C1: in every reachable state (between handlers) the fine-grained hooks are
\* hooked if and only if the session is joined: a JoinSession was dispatched
\* for the open database and no LeaveSession or close has happened since.
C1_HookedIffJoined == hooked <=> joined

\* C2: when closebase has run between a ListDatabases query and its reply, the
\* delivery of the reply is a no-op: it hands no packet to the transport, leaves
\* the hooks as they were (unhooked) and raises nothing.
C2_StaleReplyIsNoOp ==
    [][(last'.op = "reply" /\ last'.stale)
         => (out' = <<>> /\ hooked' = hooked /\ ~hooked'
             /\ last'.fault = NoFault)]_vars

\* C3: a mutation notification is forwarded to the transport as an event only
\* while the session is joined.
C3_EventOnlyWhenJoined == Sent(out, "event") => joined

\* the identity load_netnode yields from a netnode, with the exception it ends in
Loaded(node) ==
    LET m == load_netnode([Machine(TRUE) EXCEPT !.node = node])
    IN  <<m.project, m.database, m.tick, m.fault>>

\* C4: after closebase has run on a session whose project, database and tick
\* were all set, the identity in memory is {None, None, 0} and the netnode is
\* cleared too: load_netnode then yields {None, None, 0}.
C4_ClosebaseClears ==
    [][(last'.op = "closebase" /\ Truthy(project) /\ Truthy(database) /\ tick # 0)
         => (/\ project' = None /\ database' = None /\ tick' = 0
             /\ Loaded(netnode')[1] = None
             /\ Loaded(netnode')[2] = None
             /\ Loaded(netnode')[3] = 0)]_vars

\* C5: whenever leave_session or the closebase handler has completed, the
\* fine-grained hooks are unhooked.
C5_LeaveAlwaysUnhooks == last.op \in {"leave", "closebase"} => ~hooked

\* C6: when the reply lists a name equal to Core._database, the handler hands
\* exactly one packet to the transport, the JoinSession carrying the project,
\* database and tick Core holds at that moment, and the hooks are hooked when
\* it returns (Core._hooked is set and the host has a hook object of every
\* kind registered).
C6_JoinOnListed ==
    (last.op = "reply" /\ database \in last.names)
        => (/\ out = <<JoinSession(project, database, tick)>>
            /\ last.fault = NoFault
            /\ hooked
            /\ \A k \in HookKinds : \E g \in 1..MaxGen : <<g, k>> \in hostHooks)

\* a reply listing the database was handled after Core.tick was set to 0, so
\* that the netnode still holds the tick that was loaded
C6_Witness ==
    /\ last.op = "reply"
    /\ database \in last.names
    /\ hooked
    /\ tick = 0
    /\ netnode.tick = Str(7)
    /\ out = <<JoinSession(P, D, 0)>>

\* C7: when the reply lists no name equal to Core._database (compared exactly,
\* case included), the handler has no effect: no packet, the hooks, the identity
\* and the netnode as before.
C7_NoJoinWhenNotListed ==
    [][(last'.op = "reply" /\ database \notin last'.names)
         => (/\ out' = <<>>
             /\ last'.fault = NoFault
             /\ UNCHANGED <<hooked, hostHooks, project, database, tick, ticks,
                            netnode, joined>>)]_vars

\* a reply listing only "D.b" was handled while Core._database is "d.b" and
\* the hooks are unhooked
C7_Witness ==
    /\ last.op = "reply"
    /\ last.names = {DUpper}
    /\ ~last.stale
    /\ database = D
    /\ Truthy(project)
    /\ ~hooked
    /\ out = <<>>

\* C8: save_netnode followed at once by load_netnode yields the identity that
\* was saved, None and 0 for the fields that are not set; a field reset to None
\* or 0 does not come back with its old stored value (stated for the saves the
\* setters end with, and for the identities load_netnode accepts).
C8_SaveLoadRoundTrip ==
    LET m == load_netnode(Machine(TRUE))
    IN  (last.op = "set" /\ last.fault = NoFault /\ m.fault = NoFault)
          => <<m.project, m.database, m.tick>>
               = <<OrNone(project), OrNone(database), tick>>

StoredDotDot(node) ==
    \/ Truthy(node.project) /\ HasDotDot(node.project)
    \/ Truthy(node.database) /\ HasDotDot(node.database)

\* C9: when ready_to_run fires and the stored project or database contains
\* "..", load_netnode fails and nothing else happens: no query, no JoinSession,
\* no deferred, the hooks as before, and the netnode as it was.
C9_CorruptIdentityStaysIdle ==
    [][(last'.op = "ready" /\ StoredDotDot(netnode))
         => (/\ last'.fault # NoFault
             /\ out' = <<>>
             /\ UNCHANGED <<pending, hooked, hostHooks, netnode, joined>>)]_vars

\* ready_to_run was handled on a netnode whose project contains ".."
C9_Witness ==
    /\ last.op = "ready"
    /\ netnode.project = PBad
    /\ netnode.database = D
    /\ last.fault = AssertionError
    /\ ~hooked

\* C10: load_netnode on a netnode in which project, database or tick is unset
\* succeeds, so that ready_to_run completes normally, with None for an unset
\* project or database and 0 for an unset tick.
C10_LoadUnsetSucceeds ==
    (/\ last.op = "ready"
     /\ ~StoredDotDot(netnode)
     /\ None \in {netnode.project, netnode.database, netnode.tick})
        => (/\ last.fault = NoFault
            /\ project = OrNone(netnode.project)
            /\ database = OrNone(netnode.database)
            /\ netnode.tick = None => tick = 0)

\* neither Core nor the netnode holds a project or database containing ".."
NoDotDotAnywhere ==
    \A x \in {project, database, netnode.project, netnode.database} :
        Truthy(x) => ~HasDotDot(x)

\* C11: neither the project and database Core holds nor the ones the netnode
\* holds ever contain "..", whatever is assigned, saved or closed (stated for
\* the steps of the plugin: no handler or setter brings in a ".." that was not
\* there; the host opening a database is not such a step).
C11_NeverDotDot ==
    [][(~(doc = "closed" /\ doc' = "loaded") /\ NoDotDotAnywhere)
         => NoDotDotAnywhere']_vars

\* C12: unhook_all is idempotent from any state of Core (never installed,
\* installed and unhooked, installed and hooked, uninstalled): a call raises
\* nothing and leaves the hooks unhooked, with none of the hook objects Core
\* holds registered with the host, and a second call right after it changes
\* nothing.
C12_UnhookAllIdempotent ==
    [][last'.op = "unhook" =>
          /\ last'.fault = NoFault
          /\ ~hooked'
          /\ ({gen'} \X HookKinds) \cap hostHooks' = {}
          /\ last.op = "unhook" =>
                 UNCHANGED <<project, database, tick, ticks, hooked, gen,
                             installed, hostHooks, netnode, doc, pending>>]_vars

\* unhook_all has run twice in a row on a Core that holds hook objects
C12_Witness ==
    /\ last.op = "unhook"
    /\ last.again
    /\ last.fault = NoFault
    /\ ~hooked
    /\ gen > 0

\* C13: while Core is uninstalled (from the end of _uninstall until _install
\* runs again) no hook is hooked: neither the two coarse hooks nor any
\* fine-grained hook object is registered with the host and _hooked is False,
\* also when the reply to a query sent before the uninstall arrives after it.
C13_NothingHookedAfterUninstall ==
    ~installed => (~hooked /\ hostHooks = {})

\* the last handler called join_session, which found a project and a database
\* and could not dispatch its ListDatabases query
QueryNotDispatched ==
    /\ last.op \in {"ready", "join"}
    /\ last.fault = NoFault
    /\ Truthy(project) /\ Truthy(database)
    /\ ~Sent(out, "query")

\* the last handler was databases_listed, which found the database listed and
\* could not dispatch its JoinSession
JoinNotDispatched ==
    /\ last.op = "reply"
    /\ last.fault = NoFault
    /\ database \in last.names
    /\ ~Sent(out, "join")

\* C14: when the transport fails to dispatch the ListDatabases query or the
\* JoinSession, the session counts as not joined: unless it was joined before,
\* the hooks are unhooked after the failed dispatch.
C14_FailedDispatchLeavesIdle ==
    (QueryNotDispatched \/ JoinNotDispatched) => (~joined => ~hooked)

\* C15: an exception met while a hook callback builds or forwards its event
\* never leaves the callback: the callback returns 0 to the host whatever
\* happened, and at most the one event is dropped.
C15_CallbackNeverRaises ==
    connect.last.op \in Callbacks =>
        /\ connect.last.fault = NoFault
        /\ connect.last.returned = 0
        /\ Len(connect.out) <= 1

\* a fine-grained hook object of kind k is registered with the host
Registered(k) == \E g \in 1..MaxGen : <<g, k>> \in hostHooks

\* the hook object of kind k that Core holds is registered with the host
HeldRegistered(k) == <<gen, k>> \in hostHooks

\* C16: between handlers the five groups of fine-grained hooks are all hooked
\* or all unhooked, and Core._hooked says which, both of the hook objects Core
\* holds and of what the host has registered, whatever the order of install,
\* hook_all, unhook_all, uninstall and install again.
C16_HookedMatchesHost ==
    \A k \in HookKinds :
        /\ HeldRegistered(k) <=> hooked
        /\ Registered(k) <=> hooked

\* the step is a call of join_session, of databases_listed or of leave_session
\* (hook_all and unhook_all run inside the last two)
SessionStep == last'.op \in {"join", "reply", "leave"}

\* the step leaves project, database and tick alone, in Core and in the netnode
IdentityUnchanged == UNCHANGED <<project, database, tick, netnode>>

\* C17 as stated: join_session, databases_listed, leave_session, hook_all and
\* unhook_all leave project, database and tick alone, in Core and in the
\* netnode, and Core._tick changes only when the tick is assigned or the
\* database is closed.
C17_TickOnlySetOrClosed ==
    [][/\ SessionStep => IdentityUnchanged
       /\ tick' # tick => last'.op \in {"set", "closebase"}]_vars

\* C17: join_session, databases_listed, leave_session, hook_all and unhook_all
\* leave project, database and tick alone, in Core and in the netnode, and
\* Core._tick changes only when the tick is assigned, when ready_to_run loads
\* it from the netnode, or when the database is closed.
C17_SessionKeepsIdentity ==
    [][/\ SessionStep => IdentityUnchanged
       /\ tick' # tick => last'.op \in {"set", "ready", "closebase"}]_vars

\* leave_session has run, with a LeaveSession sent, on a Core that holds a
\* project, a database and a tick other than 0
C17_Witness ==
    /\ last.op = "leave"
    /\ Sent(out, "leave")
    /\ tick = 7
    /\ netnode.tick = Str(7)

\* the database is ready and a query sent since it was opened awaits its reply
QueryOutstanding ==
    /\ doc = "ready"
    /\ \E i \in 1..Len(pending) : ~pending[i].stale

\* the reply to a query sent since the database was opened has just been
\* handled: a JoinSession was dispatched and the hooks are hooked
JoinedOnReply ==
    /\ last.op = "reply"
    /\ ~last.stale
    /\ Sent(out, "join")
    /\ hooked

\* C18: once ready_to_run has found a project and a database and sent its
\* query, and the relay knows the database and its reply is delivered in the
\* end, a JoinSession is dispatched and the hooks are hooked, unless the
\* database is closed first; and the hooks never get hooked in a step other
\* than the handling of a reply, so without a reply they stay unhooked.
C18_JoinsWhenReplyDelivered ==
    /\ QueryOutstanding ~> (JoinedOnReply \/ doc = "closed")
    /\ [][(~hooked /\ hooked') => last'.op = "reply"]_vars

C18_Witness == JoinedOnReply /\ doc = "ready"

\* C19: no double join: a handler dispatches a JoinSession only when the hooks
\* are not hooked yet and no JoinSession was dispatched since the last
\* LeaveSession.
C19_NoDoubleJoin ==
    [][Sent(out', "join") => (~hooked /\ wire # "join")]_vars

\* C20: in the sequence of packets handed to the transport every event comes
\* after a JoinSession with no LeaveSession in between: the JoinSession is
\* dispatched before the hooks are hooked and no event is dispatched after a
\* LeaveSession.
C20_EventsInsideSession ==
    Sent(out, "event") => wire = "join"

====
